---- MODULE Spec2Model ----
(***************************************************************************)
(* Model of tracing-actix-web's root span builder                          *)
(* (src/src/root_span_builder.rs): the RootSpanBuilder contract, the       *)
(* DefaultRootSpanBuilder implementation and handle_error, driven by a     *)
(* host pipeline that processes NumRequests requests concurrently.         *)
(*                                                                         *)
(* A tracing Span is a handle; the registry keeps, per handle, whether the *)
(* span is enabled, the fields it declares, the attributes it was created  *)
(* with and the log of the values recorded through it.  A disabled span    *)
(* (no subscriber, or one that does not enable the span's level) and an    *)
(* undeclared field record nothing.  Strings are sequences of              *)
(* one-character strings.                                                  *)
(***************************************************************************)
EXTENDS Integers, Sequences, FiniteSets

VARIABLES
    phase,        \* per request: "Created", "Started", "Processed", "Ended"
                  \* or "Cancelled"
    request,      \* per request: the request view the pipeline received
    span_of,      \* per request: the span handle the pipeline holds
    outcome,      \* per request: the outcome of processing it
    registry,     \* the spans, indexed by handle
    start_calls,  \* per request: calls of on_request_start made for it
    end_calls     \* per request: calls of on_request_end made for it

vars == <<phase, request, span_of, outcome, registry, start_calls, end_calls>>

\* Number of requests the host processes concurrently.
NumRequests == 2

Req == 1..NumRequests

\* ---------------------------------------------------------------- values

\* Values a span field can hold: tracing::field::Empty (declared, no value
\* recorded), an i32, or a string.
Empty == [kind |-> "empty"]
I32(n) == [kind |-> "i32", v |-> n]
Str(s) == [kind |-> "str", v |-> s]

\* Option<T>: None and Some(x)
None == <<>>
Some(x) == <<x>>

NoRequest == [method |-> "", endpoint |-> ""]   \* no request received yet
NoSpan == 0                                     \* the pipeline holds no span yet
NoOutcome == [tag |-> "None"]                   \* not processed yet

\* Request views the start operation may see (method, matched route template).
Requests ==
    { [method |-> "GET",  endpoint |-> "/items/{id}"],
      [method |-> "POST", endpoint |-> "/items"] }

\* The subscriber current when a span is created: none installed, or one
\* that enables spans up to the named level.
Subscribers == {"none", "WARN", "INFO"}

\* Verbosity order of tracing's levels: ERROR < WARN < INFO < DEBUG < TRACE.
Verbosity(level) ==
    CASE level = "ERROR" -> 1
      [] level = "WARN"  -> 2
      [] level = "INFO"  -> 3
      [] level = "DEBUG" -> 4
      [] level = "TRACE" -> 5

\* Whether a span of the given level is enabled under the subscriber.
Enabled(subscriber, level) ==
    subscriber # "none" /\ Verbosity(level) <= Verbosity(subscriber)

\* The fields the root span declares.
RootSpanFields ==
    {"method", "endpoint", "client_ip", "status", "request_id",
     "exception.message", "exception.details"}

\* Status codes an outgoing response may carry.
StatusCodes == {200, 302, 404, 503}

\* Error values, each given by what its ResponseError capability yields:
\* the Display text, the Debug text and status_code().
\*   - ErrorBadRequest("bad"): an InternalError whose Display is the cause's
\*     text and whose Debug is the cause's quoted text (the character '
\*     stands for the double quote)
\*   - ErrorNotFound(""): the same with an empty cause, so an empty Display
\*   - a derive(Debug) unit error No with the hand-written Display text "no"
\*     and the default status_code()
Errors ==
    { [display |-> <<"b","a","d">>, debug |-> <<"'","b","a","d","'">>, status_code |-> 400],
      [display |-> <<>>,            debug |-> <<"'","'">>,             status_code |-> 404],
      [display |-> <<"n","o">>,     debug |-> <<"N","o">>,             status_code |-> 500] }

Bodies == {"payload"}

\* Status codes of the responses that carry an embedded error: a success
\* code, the code of one of the errors, and a code no error resolves to.
EmbeddedStatusCodes == {200, 404, 503}

\* ServiceResponse<B>: status, the error attached to the response (if any), body.
Responses ==
    [status : StatusCodes, error : {None}, body : Bodies]
    \cup [status : EmbeddedStatusCodes,
          error : { Some(e) : e \in Errors },
          body : Bodies]

\* Result<ServiceResponse<B>, Error>
Outcomes ==
    [tag : {"Ok"}, response : Responses] \cup [tag : {"Err"}, error : Errors]

\* ---------------------------------------------------------------- strings

\* needle occurs in hay as a contiguous substring
Contains(hay, needle) ==
    \E i \in 0..(Len(hay) - Len(needle)) :
        SubSeq(hay, i + 1, i + Len(needle)) = needle

\* ---------------------------------------------------------------- spans

\* The attribute a span shows for a field: its last recorded value.
RECURSIVE LastValue(_, _)
LastValue(log, name) ==
    IF log = <<>> THEN Empty
    ELSE IF log[Len(log)].field = name THEN log[Len(log)].value
    ELSE LastValue(SubSeq(log, 1, Len(log) - 1), name)

Attr(span, name) == LastValue(span.log, name)

\* How many times a field was recorded on a span.
Writes(span, name) ==
    Cardinality({ i \in 1..Len(span.log) : span.log[i].field = name })

\* root_span!(level = INFO, request): a new span of the given level. Under
\* a subscriber that enables the level it is seeded from the request, with
\* status and exception.* declared and still empty; otherwise it is a
\* disabled span that holds nothing.
root_span(level, req, subscriber) ==
    IF Enabled(subscriber, level)
    THEN [enabled |-> TRUE, fields |-> RootSpanFields,
          method |-> req.method, endpoint |-> req.endpoint, log |-> <<>>]
    ELSE [enabled |-> FALSE, fields |-> {},
          method |-> "", endpoint |-> "", log |-> <<>>]

\* Span::record(field, value) through the handle span: the value reaches the
\* subscriber only when the span is enabled and declares the field;
\* otherwise the call does nothing.
record(reg, span, name, value) ==
    IF reg[span].enabled /\ name \in reg[span].fields
    THEN [reg EXCEPT ![span].log = Append(@, [field |-> name, value |-> value])]
    ELSE reg

\* StatusCode::as_u16
as_u16(status_code) == status_code % 65536

\* i32::from(u16): zero extension; every u16 (below 65536) is an i32, so
\* the number is kept and is never negative
i32_from(u) == I32(u)

\* format!("{response_error}"): the error's Display text
format_display(response_error) == response_error.display

\* format!("{response_error:?}"): the error's Debug text
format_debug(response_error) == response_error.debug

\* tracing::field::display(String): recorded as the string's own Display
\* text, that is the string without quoting
field_display(s) == Str(s)

\* ---------------------------------------------------------------- the code

\* Variant: hands out the span created last instead of a new one.
on_request_start_shared(reg, req, subscriber) ==
    IF reg = <<>>
    THEN [registry |-> Append(reg, root_span("INFO", req, subscriber)),
          span |-> 1]
    ELSE [registry |-> reg, span |-> Len(reg)]

\* DefaultRootSpanBuilder::on_request_start, called while subscriber is the
\* current one: the registry with the new span, and the handle returned.
on_request_start(reg, req, subscriber) ==
    [registry |-> Append(reg, root_span("INFO", req, subscriber)),
     span |-> Len(reg) + 1]

\* Variant: the Display and Debug texts recorded under each other's field.
handle_error_swapped(reg, span, status_code, response_error) ==
    LET display == format_display(response_error)
        debug   == format_debug(response_error)
        r1 == record(reg, span, "exception.message", field_display(debug))
        r2 == record(r1, span, "exception.details", field_display(display))
        code == i32_from(as_u16(status_code))
    IN  record(r2, span, "status", code)

\* Variant: the Display text recorded under both fields.
handle_error_display_twice(reg, span, status_code, response_error) ==
    LET display == format_display(response_error)
        r1 == record(reg, span, "exception.message", field_display(display))
        r2 == record(r1, span, "exception.details", field_display(display))
        code == i32_from(as_u16(status_code))
    IN  record(r2, span, "status", code)

\* fn handle_error(span, status_code, response_error)
handle_error(reg, span, status_code, response_error) ==
    LET display == format_display(response_error)
        debug   == format_debug(response_error)
        r1 == record(reg, span, "exception.message", field_display(display))
        r2 == record(r1, span, "exception.details", field_display(debug))
        code == i32_from(as_u16(status_code))
    IN  record(r2, span, "status", code)

\* Variant: a response without an embedded error records nothing.
on_request_end_skip_plain(reg, span, out) ==
    IF out.tag = "Ok"
    THEN IF out.response.error # None
         THEN [registry |-> handle_error(reg, span, out.response.status,
                                         out.response.error[1]),
               outcome  |-> out]
         ELSE [registry |-> reg, outcome |-> out]
    ELSE [registry |-> handle_error(reg, span, out.error.status_code, out.error),
          outcome  |-> out]

\* Variant: the embedded-error branch derives the status from the error.
on_request_end_rederive(reg, span, out) ==
    IF out.tag = "Ok"
    THEN IF out.response.error # None
         THEN [registry |-> handle_error(reg, span,
                                         out.response.error[1].status_code,
                                         out.response.error[1]),
               outcome  |-> out]
         ELSE [registry |-> record(reg, span, "status",
                                   i32_from(as_u16(out.response.status))),
               outcome  |-> out]
    ELSE [registry |-> handle_error(reg, span, out.error.status_code, out.error),
          outcome  |-> out]

\* Variant: a failure is always recorded as 500 Internal Server Error.
on_request_end_err_500(reg, span, out) ==
    IF out.tag = "Ok"
    THEN IF out.response.error # None
         THEN [registry |-> handle_error(reg, span, out.response.status,
                                         out.response.error[1]),
               outcome  |-> out]
         ELSE [registry |-> record(reg, span, "status",
                                   i32_from(as_u16(out.response.status))),
               outcome  |-> out]
    ELSE [registry |-> handle_error(reg, span, 500, out.error),
          outcome  |-> out]

\* Variant: a response's status is recorded before the error check, so the
\* embedded-error branch records it a second time.
on_request_end_status_first(reg, span, out) ==
    IF out.tag = "Ok"
    THEN LET r0 == record(reg, span, "status",
                          i32_from(as_u16(out.response.status)))
         IN  IF out.response.error # None
             THEN [registry |-> handle_error(r0, span, out.response.status,
                                             out.response.error[1]),
                   outcome  |-> out]
             ELSE [registry |-> r0, outcome |-> out]
    ELSE [registry |-> handle_error(reg, span, out.error.status_code, out.error),
          outcome  |-> out]

\* Variant: records on the span created last, not on the span passed in.
on_request_end_current(reg, span, out) ==
    IF out.tag = "Ok"
    THEN IF out.response.error # None
         THEN [registry |-> handle_error(reg, Len(reg), out.response.status,
                                         out.response.error[1]),
               outcome  |-> out]
         ELSE [registry |-> record(reg, Len(reg), "status",
                                   i32_from(as_u16(out.response.status))),
               outcome  |-> out]
    ELSE [registry |-> handle_error(reg, Len(reg), out.error.status_code,
                                    out.error),
          outcome  |-> out]

\* Variant: the embedded-error branch resets the response's status to the
\* error's own status code.
on_request_end_rewrite(reg, span, out) ==
    IF out.tag = "Ok"
    THEN IF out.response.error # None
         THEN [registry |-> handle_error(reg, span, out.response.status,
                                         out.response.error[1]),
               outcome  |-> [out EXCEPT !.response.status =
                                            out.response.error[1].status_code]]
         ELSE [registry |-> record(reg, span, "status",
                                   i32_from(as_u16(out.response.status))),
               outcome  |-> out]
    ELSE [registry |-> handle_error(reg, span, out.error.status_code, out.error),
          outcome  |-> out]

\* Variant: an embedded error is reported only when the response's status is
\* a client or server error.
on_request_end_by_class(reg, span, out) ==
    IF out.tag = "Ok"
    THEN IF out.response.error # None /\ out.response.status >= 400
         THEN [registry |-> handle_error(reg, span, out.response.status,
                                         out.response.error[1]),
               outcome  |-> out]
         ELSE [registry |-> record(reg, span, "status",
                                   i32_from(as_u16(out.response.status))),
               outcome  |-> out]
    ELSE [registry |-> handle_error(reg, span, out.error.status_code, out.error),
          outcome  |-> out]

\* DefaultRootSpanBuilder::on_request_end(span, &outcome): what the call
\* leaves behind, the registry and the borrowed outcome.
on_request_end(reg, span, out) ==
    IF out.tag = "Ok"
    THEN IF out.response.error # None
         THEN [registry |-> handle_error(reg, span, out.response.status,
                                         out.response.error[1]),
               outcome  |-> out]
         ELSE [registry |-> record(reg, span, "status",
                                   i32_from(as_u16(out.response.status))),
               outcome  |-> out]
    ELSE [registry |-> handle_error(reg, span, out.error.status_code, out.error),
          outcome  |-> out]

\* ---------------------------------------------------------------- the host

Init ==
    /\ phase = [r \in Req |-> "Created"]
    /\ request = [r \in Req |-> NoRequest]
    /\ span_of = [r \in Req |-> NoSpan]
    /\ outcome = [r \in Req |-> NoOutcome]
    /\ registry = <<>>
    /\ start_calls = [r \in Req |-> 0]
    /\ end_calls = [r \in Req |-> 0]

\* The pipeline receives a request and calls on_request_start. Requests are
\* numbered in the order the pipeline receives them.
StartRequest(r) ==
    /\ phase[r] = "Created"
    /\ \A q \in Req : q < r => phase[q] # "Created"
    /\ \E req \in Requests, subscriber \in Subscribers :
         LET res == on_request_start(registry, req, subscriber)
         IN  /\ request' = [request EXCEPT ![r] = req]
             /\ registry' = res.registry
             /\ span_of' = [span_of EXCEPT ![r] = res.span]
    /\ phase' = [phase EXCEPT ![r] = "Started"]
    /\ start_calls' = [start_calls EXCEPT ![r] = @ + 1]
    /\ UNCHANGED <<outcome, end_calls>>

\* The application logic produces the outcome of the request.
Dispatch(r) ==
    /\ phase[r] = "Started"
    /\ \E out \in Outcomes : outcome' = [outcome EXCEPT ![r] = out]
    /\ phase' = [phase EXCEPT ![r] = "Processed"]
    /\ UNCHANGED <<request, span_of, registry, start_calls, end_calls>>

\* Variant: the pipeline may call on_request_end a second time.
EndRequest_again(r) ==
    /\ phase[r] \in {"Processed", "Ended"}
    /\ end_calls[r] < 2
    /\ LET res == on_request_end(registry, span_of[r], outcome[r])
       IN  /\ registry' = res.registry
           /\ outcome' = [outcome EXCEPT ![r] = res.outcome]
    /\ phase' = [phase EXCEPT ![r] = "Ended"]
    /\ end_calls' = [end_calls EXCEPT ![r] = @ + 1]
    /\ UNCHANGED <<request, span_of, start_calls>>

\* The pipeline calls on_request_end with the span it holds and the outcome.
EndRequest(r) ==
    /\ phase[r] = "Processed"
    /\ LET res == on_request_end(registry, span_of[r], outcome[r])
       IN  /\ registry' = res.registry
           /\ outcome' = [outcome EXCEPT ![r] = res.outcome]
    /\ phase' = [phase EXCEPT ![r] = "Ended"]
    /\ end_calls' = [end_calls EXCEPT ![r] = @ + 1]
    /\ UNCHANGED <<request, span_of, start_calls>>

\* The request is cancelled while the application logic runs: the pipeline
\* drops it without calling on_request_end, and its span closes as it is.
Cancel(r) ==
    /\ phase[r] = "Started"
    /\ phase' = [phase EXCEPT ![r] = "Cancelled"]
    /\ UNCHANGED <<request, span_of, outcome, registry, start_calls,
                   end_calls>>

Next ==
    \E r \in Req :
        \/ StartRequest(r)
        \/ Dispatch(r)
        \/ EndRequest(r)
        \/ Cancel(r)

Spec == Init /\ [][Next]_vars

\* ---------------------------------------------------------------- properties

Ended(r) == phase[r] = "Ended"
Started(r) == phase[r] # "Created"

\* The span a started request's handle refers to.
SpanOf(r) == registry[span_of[r]]

PlainSuccess(out) == out.tag = "Ok" /\ out.response.error = None
EmbeddedError(out) == out.tag = "Ok" /\ out.response.error # None
Failure(out) == out.tag = "Err"
HasError(out) == EmbeddedError(out) \/ Failure(out)
ErrorOf(out) == IF out.tag = "Ok" THEN out.response.error[1] ELSE out.error

\* C1 as stated: after on_request_end for a 2xx/3xx/4xx response with no
\* embedded error, the span's status is the response's status code and
\* neither exception.message nor exception.details was written.
C1_Original ==
    \A r \in Req :
        (/\ Ended(r)
         /\ PlainSuccess(outcome[r])
         /\ outcome[r].response.status \in 200..499)
        => /\ Attr(SpanOf(r), "status") = I32(outcome[r].response.status)
           /\ Writes(SpanOf(r), "exception.message") = 0
           /\ Writes(SpanOf(r), "exception.details") = 0

\* C1 as amended: the same for every request whose span is enabled; on a
\* disabled span nothing at all is recorded.
C1_Amended ==
    \A r \in Req :
        (/\ Ended(r)
         /\ PlainSuccess(outcome[r])
         /\ outcome[r].response.status \in 200..499)
        => /\ SpanOf(r).enabled
                => /\ Attr(SpanOf(r), "status")
                          = I32(outcome[r].response.status)
                   /\ Writes(SpanOf(r), "exception.message") = 0
                   /\ Writes(SpanOf(r), "exception.details") = 0
           /\ ~SpanOf(r).enabled => SpanOf(r).log = <<>>

C1_Witness ==
    \E r \in Req :
        /\ Ended(r)
        /\ SpanOf(r).enabled
        /\ PlainSuccess(outcome[r])
        /\ outcome[r].response.status = 404
        /\ Attr(SpanOf(r), "status") = I32(404)

\* C2 as stated: for a response that carries an embedded error, the
\* recorded status is the response's status code, whatever the error's own
\* status code is.
C2_Original ==
    \A r \in Req :
        (Ended(r) /\ EmbeddedError(outcome[r]))
        => Attr(SpanOf(r), "status") = I32(outcome[r].response.status)

\* C2 as amended: the same for every request whose span is enabled.
C2_Amended ==
    \A r \in Req :
        (Ended(r) /\ EmbeddedError(outcome[r]) /\ SpanOf(r).enabled)
        => Attr(SpanOf(r), "status") = I32(outcome[r].response.status)

C2_Witness ==
    \E r \in Req :
        /\ Ended(r)
        /\ SpanOf(r).enabled
        /\ EmbeddedError(outcome[r])
        /\ outcome[r].response.status = 503
        /\ ErrorOf(outcome[r]).status_code = 500
        /\ Attr(SpanOf(r), "status") = I32(503)

\* C3 as stated: for a failure (no response produced), the recorded status
\* is the status code the error resolves to.
C3_Original ==
    \A r \in Req :
        (Ended(r) /\ Failure(outcome[r]))
        => Attr(SpanOf(r), "status") = I32(outcome[r].error.status_code)

\* C3 as amended: the same for every request whose span is enabled.
C3_Amended ==
    \A r \in Req :
        (Ended(r) /\ Failure(outcome[r]) /\ SpanOf(r).enabled)
        => Attr(SpanOf(r), "status") = I32(outcome[r].error.status_code)

C3_Witness ==
    \E r \in Req :
        /\ Ended(r)
        /\ SpanOf(r).enabled
        /\ Failure(outcome[r])
        /\ outcome[r].error.status_code = 400
        /\ Attr(SpanOf(r), "status") = I32(400)

\* C4 as stated: on either error path both exception fields are recorded,
\* exception.message holding the error's Display text and exception.details
\* the same error's Debug text.
C4_Original ==
    \A r \in Req :
        (Ended(r) /\ HasError(outcome[r]))
        => /\ Writes(SpanOf(r), "exception.message") >= 1
           /\ Writes(SpanOf(r), "exception.details") >= 1
           /\ Attr(SpanOf(r), "exception.message")
                  = Str(ErrorOf(outcome[r]).display)
           /\ Attr(SpanOf(r), "exception.details")
                  = Str(ErrorOf(outcome[r]).debug)

\* C4 as amended: the same for every request whose span is enabled.
C4_Amended ==
    \A r \in Req :
        (Ended(r) /\ HasError(outcome[r]) /\ SpanOf(r).enabled)
        => /\ Writes(SpanOf(r), "exception.message") >= 1
           /\ Writes(SpanOf(r), "exception.details") >= 1
           /\ Attr(SpanOf(r), "exception.message")
                  = Str(ErrorOf(outcome[r]).display)
           /\ Attr(SpanOf(r), "exception.details")
                  = Str(ErrorOf(outcome[r]).debug)

C4_Witness ==
    \E r1, r2 \in Req :
        /\ Ended(r1) /\ EmbeddedError(outcome[r1])
        /\ Ended(r2) /\ Failure(outcome[r2])
        /\ Attr(SpanOf(r1), "exception.message") = Str(<<"n","o">>)
        /\ Attr(SpanOf(r1), "exception.details") = Str(<<"N","o">>)
        /\ Attr(SpanOf(r2), "exception.message") = Str(<<"b","a","d">>)

\* C5 as stated: whenever an error is present, exception.message and
\* exception.details are non-empty strings and exception.details contains
\* exception.message.
C5_Original ==
    \A r \in Req :
        (Ended(r) /\ HasError(outcome[r]))
        => LET m == Attr(SpanOf(r), "exception.message")
               d == Attr(SpanOf(r), "exception.details")
           IN  /\ m.kind = "str" /\ d.kind = "str"
               /\ m.v # <<>>
               /\ d.v # <<>>
               /\ Contains(d.v, m.v)

\* C5 as amended: whenever an error is present and the span is enabled, both
\* fields are recorded as strings; exception.message is non-empty exactly
\* when the error's Display text is, exception.details is non-empty exactly
\* when the error's Debug text is, and exception.details contains
\* exception.message exactly when the error's Debug text contains its
\* Display text.
C5_Amended ==
    \A r \in Req :
        (Ended(r) /\ HasError(outcome[r]) /\ SpanOf(r).enabled)
        => LET m == Attr(SpanOf(r), "exception.message")
               d == Attr(SpanOf(r), "exception.details")
               e == ErrorOf(outcome[r])
           IN  /\ m.kind = "str" /\ d.kind = "str"
               /\ (m.v # <<>>) <=> (e.display # <<>>)
               /\ (d.v # <<>>) <=> (e.debug # <<>>)
               /\ Contains(d.v, m.v) <=> Contains(e.debug, e.display)

C5_Witness ==
    \E r1, r2 \in Req :
        /\ Ended(r1) /\ SpanOf(r1).enabled /\ HasError(outcome[r1])
        /\ ErrorOf(outcome[r1]).display = <<"b","a","d">>
        /\ LET m == Attr(SpanOf(r1), "exception.message")
               d == Attr(SpanOf(r1), "exception.details")
           IN  /\ m.kind = "str" /\ d.kind = "str"
               /\ m.v # <<>> /\ d.v # <<>> /\ Contains(d.v, m.v)
        /\ Ended(r2) /\ SpanOf(r2).enabled /\ HasError(outcome[r2])
        /\ ErrorOf(outcome[r2]).display = <<>>
        /\ Attr(SpanOf(r2), "exception.message") = Str(<<>>)

\* C6 as stated: every execution of on_request_end writes status exactly
\* once: a span holds one status write per call made for its request, and
\* exactly one once the request has ended.
C6_Original ==
    \A r \in Req :
        Started(r)
        => /\ Writes(SpanOf(r), "status") = end_calls[r]
           /\ Ended(r) => Writes(SpanOf(r), "status") = 1

\* C6 as amended: on an enabled span status is written exactly once per
\* execution of on_request_end; on a disabled span it is never written.
C6_Amended ==
    \A r \in Req :
        Started(r)
        => /\ SpanOf(r).enabled
                => /\ Writes(SpanOf(r), "status") = end_calls[r]
                   /\ Ended(r) => Writes(SpanOf(r), "status") = 1
           /\ ~SpanOf(r).enabled => Writes(SpanOf(r), "status") = 0

C6_Witness ==
    \E r1, r2 \in Req :
        /\ Ended(r1) /\ EmbeddedError(outcome[r1])
        /\ Ended(r2) /\ PlainSuccess(outcome[r2])
        /\ Writes(SpanOf(r1), "status") = 1
        /\ Writes(SpanOf(r2), "status") = 1

\* C7 as stated: each request goes Created -> Started -> Ended, with
\* on_request_start called exactly once and on_request_end exactly once, on
\* the span on_request_start returned: a request that is under way has had
\* its one start call and no end call yet, and a request whose span has
\* closed has had exactly one of each.
C7_Original ==
    \A r \in Req :
        /\ phase[r] = "Created"
              => start_calls[r] = 0 /\ end_calls[r] = 0 /\ span_of[r] = NoSpan
        /\ phase[r] \in {"Started", "Processed"}
              => /\ start_calls[r] = 1 /\ end_calls[r] = 0
                 /\ span_of[r] \in 1..Len(registry)
        /\ phase[r] \in {"Ended", "Cancelled"}
              => /\ start_calls[r] = 1 /\ end_calls[r] = 1
                 /\ span_of[r] \in 1..Len(registry)

\* C7 as amended: on_request_start is called exactly once per request and
\* on_request_end at most once, after it and on the span it returned:
\* exactly once for a request that reaches Ended, and never for a request
\* cancelled before the end call, whose span closes with no terminal
\* attribute. Ended is reached only from Started (through the outcome being
\* produced), Ended and Cancelled are never left, and the span of an ended
\* or cancelled request is never written again.
C7_LifecycleState ==
    \A r \in Req :
        /\ phase[r] = "Created"
              => start_calls[r] = 0 /\ end_calls[r] = 0 /\ span_of[r] = NoSpan
        /\ phase[r] \in {"Started", "Processed"}
              => /\ start_calls[r] = 1 /\ end_calls[r] = 0
                 /\ span_of[r] \in 1..Len(registry)
                 /\ SpanOf(r).log = <<>>
        /\ phase[r] = "Ended"
              => /\ start_calls[r] = 1 /\ end_calls[r] = 1
                 /\ span_of[r] \in 1..Len(registry)
                 /\ SpanOf(r).enabled => Writes(SpanOf(r), "status") >= 1
        /\ phase[r] = "Cancelled"
              => /\ start_calls[r] = 1 /\ end_calls[r] = 0
                 /\ span_of[r] \in 1..Len(registry)
                 /\ SpanOf(r).log = <<>>

C7_LifecycleStep ==
    \A r \in Req :
        /\ phase'[r] = "Ended" => phase[r] \in {"Processed", "Ended"}
        /\ phase'[r] = "Processed" => phase[r] \in {"Started", "Processed"}
        /\ phase[r] = "Created" => phase'[r] \in {"Created", "Started"}
        /\ phase[r] # "Created" => span_of'[r] = span_of[r]
        /\ start_calls'[r] >= start_calls[r]
        /\ end_calls'[r] >= end_calls[r]
        /\ phase[r] \in {"Ended", "Cancelled"}
              => /\ phase'[r] = phase[r]
                 /\ start_calls'[r] = start_calls[r]
                 /\ end_calls'[r] = end_calls[r]
                 /\ registry'[span_of[r]] = registry[span_of[r]]

C7_Amended == [](C7_LifecycleState) /\ [][C7_LifecycleStep]_vars

C7_Witness ==
    \E r1, r2 \in Req :
        /\ r1 # r2
        /\ Ended(r1) /\ start_calls[r1] = 1 /\ end_calls[r1] = 1
        /\ SpanOf(r1).enabled /\ Writes(SpanOf(r1), "status") = 1
        /\ phase[r2] = "Cancelled"
        /\ start_calls[r2] = 1 /\ end_calls[r2] = 0
        /\ SpanOf(r2).enabled /\ SpanOf(r2).log = <<>>

\* C8: concurrent requests get spans of their own and on_request_end writes
\* only to the span of its request: distinct requests hold distinct spans, an
\* enabled span carries its own request's attributes (a span is, but for
\* its log, the span root_span! creates for its own request), nothing is
\* recorded on a span before its request ends, and what is recorded then is
\* what on_request_end records for that outcome on that span alone.
C8_SpanIsolation ==
    /\ \A r1, r2 \in Req :
          (r1 # r2 /\ Started(r1) /\ Started(r2)) => span_of[r1] # span_of[r2]
    /\ \A r \in Req :
          Started(r)
          => /\ SpanOf(r).enabled
                  => /\ SpanOf(r).method = request[r].method
                     /\ SpanOf(r).endpoint = request[r].endpoint
             /\ \E subscriber \in Subscribers :
                   [SpanOf(r) EXCEPT !.log = <<>>]
                       = root_span("INFO", request[r], subscriber)
             /\ ~Ended(r) => SpanOf(r).log = <<>>
             /\ Ended(r)
                  => SpanOf(r).log =
                       on_request_end(<<[SpanOf(r) EXCEPT !.log = <<>>]>>, 1,
                                      outcome[r]).registry[1].log

C8_Witness ==
    \E r1, r2 \in Req :
        /\ r1 # r2
        /\ Ended(r1) /\ Ended(r2)
        /\ SpanOf(r1).enabled /\ SpanOf(r2).enabled
        /\ request[r1] # request[r2]
        /\ SpanOf(r1).method = request[r1].method
        /\ SpanOf(r2).method = request[r2].method
        /\ SpanOf(r1).method # SpanOf(r2).method
        /\ span_of[r1] # span_of[r2]
        /\ outcome[r1] # outcome[r2]
        /\ SpanOf(r1).log # <<>>
        /\ SpanOf(r2).log # <<>>
        /\ SpanOf(r1).log # SpanOf(r2).log

\* C9: a call of on_request_end leaves the outcome (status, body, embedded
\* error or failure) as it was, and changes nothing but the registry's span
\* logs: no request's outcome, request view or span handle changes, no span
\* is created, and no span's creation-time attributes change.
C9_EndStep ==
    \A r \in Req :
        (phase[r] = "Processed" /\ phase'[r] = "Ended")
        => /\ outcome' = outcome
           /\ request' = request
           /\ span_of' = span_of
           /\ Len(registry') = Len(registry)
           /\ \A s \in 1..Len(registry) :
                 registry'[s] = [registry[s] EXCEPT !.log = registry'[s].log]

C9_OutcomeUnchanged == [][C9_EndStep]_vars

C9_Witness ==
    \E r \in Req :
        /\ Ended(r)
        /\ SpanOf(r).enabled
        /\ SpanOf(r).log # <<>>
        /\ EmbeddedError(outcome[r])
        /\ outcome[r].response.status = 200
        /\ outcome[r].response.body = "payload"
        /\ ErrorOf(outcome[r]).status_code = 400

\* C10 as stated: exception.message and exception.details are written if
\* and only if the outcome carries an error object, whatever the status
\* code's class.
C10_Original ==
    \A r \in Req :
        Ended(r)
        => /\ HasError(outcome[r]) <=> Writes(SpanOf(r), "exception.message") >= 1
           /\ HasError(outcome[r]) <=> Writes(SpanOf(r), "exception.details") >= 1

\* C10 as amended: exception.message and exception.details are written if
\* and only if the outcome carries an error object and the span is enabled,
\* whatever the status code's class.
C10_Amended ==
    \A r \in Req :
        Ended(r)
        => /\ (HasError(outcome[r]) /\ SpanOf(r).enabled)
                 <=> Writes(SpanOf(r), "exception.message") >= 1
           /\ (HasError(outcome[r]) /\ SpanOf(r).enabled)
                 <=> Writes(SpanOf(r), "exception.details") >= 1

C10_Witness ==
    \E r1, r2 \in Req :
        /\ Ended(r1) /\ PlainSuccess(outcome[r1]) /\ SpanOf(r1).enabled
        /\ outcome[r1].response.status = 503
        /\ Attr(SpanOf(r1), "status") = I32(503)
        /\ Writes(SpanOf(r1), "exception.message") = 0
        /\ Writes(SpanOf(r1), "exception.details") = 0
        /\ Ended(r2) /\ EmbeddedError(outcome[r2])
        /\ outcome[r2].response.status = 200
        /\ Writes(SpanOf(r2), "exception.message") = 1
        /\ Writes(SpanOf(r2), "exception.details") = 1

====
